---- MODULE Spec2Model ----
(***************************************************************************)
(* Model of sc2bankrecover:                                                *)
(*   - repm.newRep / Rep.Close (session construction and release),         *)
(*   - bankrecover.NewBanksFromReplay (bank reconstruction pass), in its   *)
(*     two variants: keyed by player index (src/bank.go) and keyed by      *)
(*     lobby slot (src/unnamed/part_003),                                  *)
(*   - Bank.AddGameEvent and Bank.WriteTo (serialization),                 *)
(*   - repm.TrackerEvts.init, angleToClock and calcSQ (tracker analytics). *)
(***************************************************************************)
EXTENDS Integers, Sequences, FiniteSets, TLC

VARIABLES
    \* ---- repm.newRep / Rep.Close ----
    pc,          \* position inside newRep ("done" once it has returned)
    want,        \* the game / message / tracker arguments of newRep
    closeMPQ,    \* local closeMPQ of newRep
    rep,         \* local rep of newRep: header, protocol, sections, error flags
    files,       \* what each FileByHash call of newRep returned ("unread" before)
    lookups,     \* the s2prot.GetProtocol calls made, in order: build and result
    decoded,     \* decode result of each event stream ("none" when not decoded)
    fault,       \* the step at which a runtime fault (panic) was raised, or "none"
    failedAt,    \* the step whose return statement ended newRep with an error
    ret,         \* what newRep returned: parsedRep, errRes, and whether a panic escaped
    mCloses,     \* number of m.Close() calls made on the archive handle
    userCloses,  \* number of Rep.Close() calls made by the caller
    \* ---- bankrecover.NewBanksFromReplay / Bank.WriteTo ----
    keying,      \* "player" (src/bank.go) or "slot" (src/unnamed/part_003)
    mode,        \* input alphabet of the run: "users" or "values"
    nPlayers,    \* len(r.Details.Players())
    slots,       \* r.InitData.LobbyState.Slots: sequence of [uid, toon]
    GameEvts,    \* the game events read so far by the pass (r.GameEvts prefix)
    bpc,         \* position of the pass: "scan", "done", "panic"
    bankNameCurr,\* local bankNameCurr of the pass
    banks,       \* playersBanks / usersBank: bucket index -> (name -> Bank or NoBank)
    addErrs,     \* number of errors returned by AddGameEvent during the pass
    outs,        \* results of the WriteTo calls made on the reconstructed banks
    added,       \* results of the AddGameEvent calls made directly by a caller
    \* ---- repm.TrackerEvts.init / angleToClock ----
    tpc,         \* position of the run: "idle", "feed", "done", "panic", "clock"
    TrkEvts,     \* the tracker events of the replay (t.Evts)
    PIDPlayerDescMap,  \* player id -> PlayerDesc derived by init
    ToonPlayerDescMap, \* toon handle -> player id of the PlayerDesc
    tfault,      \* what a fault of the tracker run was raised by, or ""
    angle,       \* argument of an angleToClock call, in units of pi/24
    clock        \* result of that call, or NoClock before the call

repVars  == <<pc, want, closeMPQ, rep, files, lookups, decoded, fault, failedAt,
              ret, mCloses, userCloses>>
bankVars == <<keying, mode, nPlayers, slots, GameEvts, bpc, bankNameCurr, banks,
              addErrs, outs>>
trkVars  == <<tpc, TrkEvts, PIDPlayerDescMap, ToonPlayerDescMap, tfault, angle, clock>>
vars     == <<repVars, bankVars, added, trkVars>>

----------------------------------------------------------------------------
(* Bounds *)

\* Rep.Close() calls the caller makes on a returned session.
MaxUserCloses == 3
\* Base builds a header may carry are 1..MaxBuild.
MaxBuild == 2

----------------------------------------------------------------------------
(* repm: session construction                                              *)

ErrNone        == "nil"
ErrInvalid     == "ErrInvalidRepFile"
ErrUnsupported == "ErrUnsupportedRepVersion"
ErrDecoding    == "ErrDecoding"

NoProtocol == 0
\* s2prot.MaxBaseBuild: the highest base build, the one the fallback looks up.
MaxBaseBuild == MaxBuild
Builds       == 1..MaxBuild

\* Outcomes of m.FileByHash: an error, (nil, nil) for a missing file,
\* a non-nil slice of length 0, or content.
FileResults == {"err", "absent", "empty", "data"}

Resources == {"replay.details", "replay.details.backup",
              "replay.initData", "replay.initData.backup",
              "replay.attributes.events", "replay.gamemetadata.json",
              "replay.game.events", "replay.message.events",
              "replay.tracker.events"}

Steps == <<"header", "protocol", "details", "initData", "attributes",
           "metadata", "game", "message", "tracker", "finish">>

StepSet == {Steps[i] : i \in 1..Len(Steps)}

\* s2prot.GetProtocol(baseBuild) over the set of protocols the library holds.
GetProtocol(known, b) == IF b \in known THEN b ELSE NoProtocol

\* newRep lines 134-143: the protocol for the header's base build, else the
\* one of MaxBaseBuild.
\* Variant: no second lookup after a miss.
ResolveNoFallback(known, bb) == GetProtocol(known, bb)

ResolveProtocol(known, bb) ==
    LET p == GetProtocol(known, bb)
    IN  IF p = NoProtocol THEN GetProtocol(known, MaxBaseBuild) ELSE p

\* The builds looked up by lines 135-139, in order.
LookupsOf(known, bb) ==
    LET first == [b |-> bb, p |-> GetProtocol(known, bb)]
        again == [b |-> MaxBaseBuild, p |-> GetProtocol(known, MaxBaseBuild)]
    IN  IF first.p = NoProtocol THEN <<first, again>> ELSE <<first>>

\* newRep lines 147, 150, 157, 160: err != nil || len(data) == 0
Unusable(res) == res \in {"err", "absent", "empty"}

\* newRep lines 146-153 and 156-163: which resource a section with a backup is
\* decoded from, and whether the backup was read.
\* Variant: the backup is always read and preferred.
BackupFirst(prim, back) ==
    [readBackup |-> TRUE,
     src        |-> IF ~Unusable(back) THEN "backup"
                    ELSE IF ~Unusable(prim) THEN "primary" ELSE "none"]

ReadWithBackup(prim, back) ==
    IF ~Unusable(prim)
    THEN [readBackup |-> FALSE, src |-> "primary"]
    ELSE [readBackup |-> TRUE,
          src        |-> IF Unusable(back) THEN "none" ELSE "backup"]

\* newRep lines 188, 197, 208: the error flag of a decoded stream.
\* Variant: the decode error is not stored.
ErrFlagNever(decodeResult) == FALSE

ErrFlag(decodeResult) == decodeResult = "fail"

\* The deferred function of newRep, lines 114-125: m.Close() when closeMPQ is
\* set, then recover().  `res` is what the return statement stored in the
\* named results (nil, nil when the function is panicking).
\* Variant: recover() first, and no m.Close() after a panic.
DeferredLeak(cm, panicking, res) ==
    [closes   |-> IF cm /\ ~panicking THEN 1 ELSE 0,
     rep      |-> res.rep,
     err      |-> IF panicking THEN ErrDecoding ELSE res.err,
     escaped  |-> FALSE]

\* Variant: no recover().
DeferredNoRecover(cm, panicking, res) ==
    [closes   |-> IF cm THEN 1 ELSE 0,
     rep      |-> res.rep,
     err      |-> res.err,
     escaped  |-> panicking]

Deferred(cm, panicking, res) ==
    [closes   |-> IF cm THEN 1 ELSE 0,
     rep      |-> res.rep,
     err      |-> IF panicking THEN ErrDecoding ELSE res.err,
     escaped  |-> FALSE]

NoRet == [rep |-> "pending", err |-> "pending", escaped |-> FALSE]

Rep0 == [m |-> "mpq", header |-> 0, protocol |-> NoProtocol,
         details |-> "none", initData |-> "none",
         attrs |-> FALSE, metadata |-> FALSE,
         GameEvtsErr |-> FALSE, MessageEvtsErr |-> FALSE, TrackerEvtsErr |-> FALSE,
         trackerInit |-> FALSE]

RepInit ==
    /\ pc = "header"
    /\ want \in [{"game", "message", "tracker"} -> BOOLEAN]
    /\ closeMPQ = TRUE
    /\ rep = Rep0
    /\ files = [f \in Resources |-> "unread"]
    /\ lookups = <<>>
    /\ decoded = [s \in {"game", "message", "tracker"} |-> "none"]
    /\ fault = "none"
    /\ failedAt = "none"
    /\ ret = NoRet
    /\ mCloses = 0
    /\ userCloses = 0

\* A return statement `return nil, e` of newRep followed by the deferred function.
ReturnErr(step, e) ==
    LET d == Deferred(closeMPQ, FALSE, [rep |-> "nil", err |-> e])
    IN  /\ pc' = "done"
        /\ failedAt' = step
        /\ ret' = [rep |-> d.rep, err |-> d.err, escaped |-> d.escaped]
        /\ mCloses' = mCloses + d.closes

\* A runtime fault raised while newRep is at `pc`: the named results still hold
\* their zero values when the deferred function runs.
Panic ==
    /\ pc \in StepSet \ {"finish"}
    /\ pc \in {"game", "message", "tracker"} => want[pc]
    /\ LET d == Deferred(closeMPQ, TRUE, [rep |-> "nil", err |-> ErrNone])
       IN  /\ ret' = [rep |-> d.rep, err |-> d.err, escaped |-> d.escaped]
           /\ mCloses' = mCloses + d.closes
    /\ fault' = pc
    /\ pc' = "done"
    /\ UNCHANGED <<want, closeMPQ, rep, files, lookups, decoded, failedAt, userCloses>>
    /\ UNCHANGED <<bankVars, added, trkVars>>

\* Lines 129-132.
DecodeHeader ==
    /\ pc = "header"
    /\ \/ /\ \E bb \in Builds : rep' = [rep EXCEPT !.header = bb]
          /\ pc' = "protocol"
          /\ UNCHANGED <<failedAt, ret, mCloses>>
       \/ /\ ReturnErr("header", ErrInvalid)
          /\ UNCHANGED rep
    /\ UNCHANGED <<want, closeMPQ, files, lookups, decoded, fault, userCloses>>
    /\ UNCHANGED <<bankVars, added, trkVars>>

\* Lines 134-144.
LookupProtocol ==
    /\ pc = "protocol"
    /\ \E known \in SUBSET Builds :
         LET p == ResolveProtocol(known, rep.header)
         IN  /\ lookups' = LookupsOf(known, rep.header)
             /\ IF p = NoProtocol
                THEN /\ ReturnErr("protocol", ErrUnsupported)
                     /\ UNCHANGED rep
                ELSE /\ rep' = [rep EXCEPT !.protocol = p]
                     /\ pc' = "details"
                     /\ UNCHANGED <<failedAt, ret, mCloses>>
    /\ UNCHANGED <<want, closeMPQ, files, decoded, fault, userCloses>>
    /\ UNCHANGED <<bankVars, added, trkVars>>

\* Lines 146-154 (details) and 156-164 (init data).
ReadSection(step, field, prim, back, next) ==
    /\ pc = step
    /\ \E p \in FileResults, b \in FileResults :
         LET r == ReadWithBackup(p, b)
         IN  /\ files' = IF r.readBackup
                         THEN [files EXCEPT ![prim] = p, ![back] = b]
                         ELSE [files EXCEPT ![prim] = p]
             /\ IF r.src = "none"
                THEN /\ ReturnErr(step, ErrInvalid)
                     /\ UNCHANGED rep
                ELSE /\ rep' = [rep EXCEPT ![field] = r.src]
                     /\ pc' = next
                     /\ UNCHANGED <<failedAt, ret, mCloses>>
    /\ UNCHANGED <<want, closeMPQ, lookups, decoded, fault, userCloses>>
    /\ UNCHANGED <<bankVars, added, trkVars>>

ReadDetails ==
    ReadSection("details", "details", "replay.details", "replay.details.backup",
                "initData")

ReadInitData ==
    ReadSection("initData", "initData", "replay.initData", "replay.initData.backup",
                "attributes")

\* Lines 166-170.
ReadAttrEvts ==
    /\ pc = "attributes"
    /\ \E a \in FileResults :
         /\ files' = [files EXCEPT !["replay.attributes.events"] = a]
         /\ IF a = "err"
            THEN /\ ReturnErr("attributes", ErrInvalid)
                 /\ UNCHANGED rep
            ELSE /\ rep' = [rep EXCEPT !.attrs = TRUE]
                 /\ pc' = "metadata"
                 /\ UNCHANGED <<failedAt, ret, mCloses>>
    /\ UNCHANGED <<want, closeMPQ, lookups, decoded, fault, userCloses>>
    /\ UNCHANGED <<bankVars, added, trkVars>>

\* Lines 172-180: json.Unmarshal runs on every non-nil content and fails on an
\* empty one.
ReadMetadata ==
    /\ pc = "metadata"
    /\ \E a \in FileResults, parses \in BOOLEAN :
         /\ files' = [files EXCEPT !["replay.gamemetadata.json"] = a]
         /\ IF a = "err" \/ a = "empty" \/ (a = "data" /\ ~parses)
            THEN /\ ReturnErr("metadata", ErrInvalid)
                 /\ UNCHANGED rep
            ELSE /\ rep' = [rep EXCEPT !.metadata = (a = "data")]
                 /\ pc' = "game"
                 /\ UNCHANGED <<failedAt, ret, mCloses>>
    /\ UNCHANGED <<want, closeMPQ, lookups, decoded, fault, userCloses>>
    /\ UNCHANGED <<bankVars, added, trkVars>>

\* Lines 182-189 (game) and 191-198 (message).
ReadStream(step, res, flag, next) ==
    /\ pc = step
    /\ IF ~want[step]
       THEN /\ pc' = next
            /\ UNCHANGED <<rep, files, decoded, failedAt, ret, mCloses>>
       ELSE \E a \in FileResults, d \in {"ok", "fail"} :
              /\ files' = [files EXCEPT ![res] = a]
              /\ IF a = "err"
                 THEN /\ ReturnErr(step, ErrInvalid)
                      /\ UNCHANGED <<rep, decoded>>
                 ELSE /\ decoded' = [decoded EXCEPT ![step] = d]
                      /\ rep' = [rep EXCEPT ![flag] = ErrFlag(d)]
                      /\ pc' = next
                      /\ UNCHANGED <<failedAt, ret, mCloses>>
    /\ UNCHANGED <<want, closeMPQ, lookups, fault, userCloses>>
    /\ UNCHANGED <<bankVars, added, trkVars>>

ReadGameEvts == ReadStream("game", "replay.game.events", "GameEvtsErr", "message")

ReadMessageEvts ==
    ReadStream("message", "replay.message.events", "MessageEvtsErr", "tracker")

\* Lines 200-209: the tracker stream is decoded, TrackerEvts.init runs on
\* whatever was decoded, and only then the error flag is stored.
ReadTrackerEvts ==
    /\ pc = "tracker"
    /\ IF ~want["tracker"]
       THEN /\ pc' = "finish"
            /\ UNCHANGED <<rep, files, decoded, failedAt, ret, mCloses>>
       ELSE \E a \in FileResults, d \in {"ok", "fail"} :
              /\ files' = [files EXCEPT !["replay.tracker.events"] = a]
              /\ IF a = "err"
                 THEN /\ ReturnErr("tracker", ErrInvalid)
                      /\ UNCHANGED <<rep, decoded>>
                 ELSE /\ decoded' = [decoded EXCEPT !["tracker"] = d]
                      /\ rep' = [rep EXCEPT !.trackerInit = TRUE,
                                            !.TrackerEvtsErr = ErrFlag(d)]
                      /\ pc' = "finish"
                      /\ UNCHANGED <<failedAt, ret, mCloses>>
    /\ UNCHANGED <<want, closeMPQ, lookups, fault, userCloses>>
    /\ UNCHANGED <<bankVars, added, trkVars>>

\* Lines 211-215: closeMPQ = false; return &rep, nil; then the deferred function.
Finish ==
    /\ pc = "finish"
    /\ closeMPQ' = FALSE
    /\ LET d == Deferred(closeMPQ', FALSE, [rep |-> "rep", err |-> ErrNone])
       IN  /\ ret' = [rep |-> d.rep, err |-> d.err, escaped |-> d.escaped]
           /\ mCloses' = mCloses + d.closes
    /\ pc' = "done"
    /\ UNCHANGED <<want, rep, files, lookups, decoded, fault, failedAt, userCloses>>
    /\ UNCHANGED <<bankVars, added, trkVars>>

\* Rep.Close, lines 219-224, called on a session newRep returned.
CloseCalls(r, closes) == IF r.m = "nil" THEN 0 ELSE 1

Close ==
    /\ pc = "done"
    /\ ret.rep = "rep"
    /\ userCloses < MaxUserCloses
    /\ userCloses' = userCloses + 1
    /\ mCloses' = mCloses + CloseCalls(rep, mCloses)
    /\ UNCHANGED <<pc, want, closeMPQ, rep, files, lookups, decoded, fault,
                   failedAt, ret>>
    /\ UNCHANGED <<bankVars, added, trkVars>>

RepNext ==
    \/ DecodeHeader
    \/ LookupProtocol
    \/ ReadDetails
    \/ ReadInitData
    \/ ReadAttrEvts
    \/ ReadMetadata
    \/ ReadGameEvts
    \/ ReadMessageEvts
    \/ ReadTrackerEvts
    \/ Finish
    \/ Panic
    \/ Close

----------------------------------------------------------------------------
(* bankrecover: reconstruction of the banks from the game events           *)

\* Bounds of the reconstruction pass: events of a stream of several users,
\* events of a stream of one user, user ids, players, lobby slots.
MaxEvents    == 3
MaxDocEvents == 4
MaxUser    == 1
MaxPlayers == 2
MaxSlots   == 2

Users     == 0..MaxUser
BankNames == {"A", "B"}
Toons     == {"", "T"}

EvtTypeBankFile      == "BankFile"
EvtTypeBankSection   == "BankSection"
EvtTypeBankKey       == "BankKey"
EvtTypeBankValue     == "BankValue"
EvtTypeBankSignature == "BankSignature"

ContentTypes == {EvtTypeBankSection, EvtTypeBankKey, EvtTypeBankValue,
                 EvtTypeBankSignature}

\* The payload of the event at position i of the stream.
DataPool == <<"d1", "d2", "d3", "d4", "d5", "d6", "d7", "d8", "d9">>

\* A game event: type tag, loop, user id and the fields the bank code reads.
Evt(type, user, name, hasType, vtype, sig, loop, pos) ==
    [type |-> type, user |-> user, name |-> name, hasType |-> hasType,
     vtype |-> vtype, sig |-> sig, loop |-> loop, data |-> DataPool[pos]]

\* Type codes carried by the Key and Value events of the "values" alphabet.
KeyTypes   == {0, 7}
ValueTypes == {-1, 0, 6, 7, 8}
SigBytes   == {<<>>, <<10, 255>>}

\* Events of several users; every Key and Value carries type code 0.  User 0
\* sends content events of every type, the other users send Section events.
UserEvents(pos) ==
    {Evt(EvtTypeBankFile, u, n, FALSE, 0, <<>>, 0, pos) : u \in Users, n \in BankNames}
    \cup {Evt(t, 0, "A", t = EvtTypeBankValue, 0, <<>>, 0, pos) : t \in ContentTypes}
    \cup {Evt(EvtTypeBankSection, u, "A", FALSE, 0, <<>>, 0, pos) : u \in Users \ {0}}
    \cup {Evt("Other", 0, "A", FALSE, 0, <<>>, 0, pos)}
    \cup {Evt(t, 0, "A", FALSE, 0, <<>>, 1, pos) :
            t \in {EvtTypeBankFile, EvtTypeBankSection}}

\* Events of user 0 alone, with every shape of content event.  A Section
\* and a Key are named after their position in the stream.
ValueEvents(pos) ==
    {Evt(EvtTypeBankFile, 0, "A", FALSE, 0, <<>>, 0, pos)}
    \cup {Evt(EvtTypeBankSection, 0, DataPool[pos], FALSE, 0, <<>>, 0, pos)}
    \cup {Evt(EvtTypeBankKey, 0, DataPool[pos], FALSE, 0, <<>>, 0, pos)}
    \cup {Evt(EvtTypeBankKey, 0, DataPool[pos], TRUE, t, <<>>, 0, pos) : t \in KeyTypes}
    \cup {Evt(EvtTypeBankValue, 0, "A", TRUE, t, <<>>, 0, pos) : t \in ValueTypes}
    \cup {Evt(EvtTypeBankSignature, 0, "A", FALSE, 0, sg, 0, pos) : sg \in SigBytes}

NextEvents(pos) == IF mode = "users" THEN UserEvents(pos) ELSE ValueEvents(pos)

\* isBankEvent, bank.go lines 22-35.
isBankEvent(e) == e.type \in ({EvtTypeBankFile} \cup ContentTypes)

NoBank == [nil |-> TRUE, Name |-> "", owner |-> [index |-> 0, uid |-> 0, toon |-> ""],
           GameEvents |-> <<>>]

\* NewBank, bank.go lines 85-95 / part_003 lines 118-129.
NewBank(e, owner) ==
    IF e.type # EvtTypeBankFile
    THEN NoBank
    ELSE [nil |-> FALSE, Name |-> e.name, owner |-> owner, GameEvents |-> <<e>>]

\* Variant of AddGameEvent: a content event goes right behind the first event.
AddGameEventFront(bank, e) ==
    IF e.type \in ContentTypes
    THEN [bank |-> [bank EXCEPT !.GameEvents = <<Head(@), e>> \o Tail(@)],
          err |-> FALSE]
    ELSE [bank |-> bank, err |-> TRUE]
\* Variant of AddGameEvent: every event is appended, none refused.
AddGameEventAny(bank, e) ==
    [bank |-> [bank EXCEPT !.GameEvents = Append(@, e)], err |-> FALSE]
\* Bank.AddGameEvent, bank.go lines 102-115: the bank after the call and
\* whether an error was returned.
AddGameEvent(bank, e) ==
    IF e.type \in ContentTypes
    THEN [bank |-> [bank EXCEPT !.GameEvents = Append(@, e)], err |-> FALSE]
    ELSE [bank |-> bank, err |-> TRUE]

\* A Go map lookup: the zero value (nil) for a missing key.
MapGet(bucket, name) == IF name \in DOMAIN bucket THEN bucket[name] ELSE NoBank

\* findSlotByUserID, part_003 lines 59-70: the last slot with that user id and
\* a non-empty toon handle; the zero PlayerSlot (index 0) for a user id the map
\* does not hold.
SlotsOf(uid) == {i \in 1..Len(slots) : slots[i].uid = uid /\ slots[i].toon # ""}

ZeroSlot == [index |-> 0, uid |-> 0, toon |-> ""]

findSlotByUserID(uid) ==
    IF SlotsOf(uid) = {}
    THEN ZeroSlot
    ELSE LET i == CHOOSE j \in SlotsOf(uid) : \A k \in SlotsOf(uid) : k <= j
         IN  [index |-> i - 1, uid |-> slots[i].uid, toon |-> slots[i].toon]

\* The owner NewBank is seeded with and the bucket the event goes to:
\* bank.go line 53 (r.Details.Players()[evt.UserID()]), part_003 lines 81-84.
OwnerOf(e) ==
    IF keying = "player"
    THEN [index |-> e.user, uid |-> e.user, toon |-> "T"]
    ELSE findSlotByUserID(e.user)

\* Number of buckets: bank.go line 38, part_003 line 41.
NumBuckets == IF keying = "player" THEN nPlayers ELSE Len(slots)

EmptyBucket == [n \in BankNames |-> NoBank]

BankIdle ==
    /\ keying = "player"
    /\ mode = "users"
    /\ nPlayers = 0
    /\ slots = <<>>
    /\ GameEvts = <<>>
    /\ bpc = "idle"
    /\ bankNameCurr = ""
    /\ banks = <<>>
    /\ addErrs = 0
    /\ outs = <<>>
    /\ added = <<>>

SlotTables ==
    UNION {[1..n -> [uid : Users, toon : Toons]] : n \in 0..MaxSlots}

\* The state on entry to the scan loop (bank.go line 44, part_003 line 73).
BankStart ==
    /\ GameEvts = <<>>
    /\ bpc = "scan"
    /\ bankNameCurr = ""
    /\ banks = [i \in 1..NumBuckets |-> EmptyBucket]
    /\ addErrs = 0
    /\ outs = <<>>
    /\ added = <<>>

\* Variant of Late: the pass never leaves the loop early.
LateNever(e) == FALSE
\* The guard of the break: the event ran after the game loop started.
Late(e) == e.loop > 0

\* Variant of Register: a name already in the bucket keeps its document.
RegisterOnce(bucket, e, owner) ==
    IF MapGet(bucket, e.name).nil
    THEN [bucket EXCEPT ![e.name] = NewBank(e, owner)]
    ELSE bucket
\* The map assignment of a BankFile event: the bucket's entry under the
\* event's name becomes a new bank.
Register(bucket, e, owner) == [bucket EXCEPT ![e.name] = NewBank(e, owner)]

\* One iteration of the scan loop on the next game event
\* (bank.go lines 44-62, part_003 lines 73-94).
ScanOne(e) ==
    IF Late(e)
    THEN [bpc |-> "done", name |-> bankNameCurr, banks |-> banks, errs |-> 0]
    ELSE IF ~isBankEvent(e)
    THEN [bpc |-> "scan", name |-> bankNameCurr, banks |-> banks, errs |-> 0]
    ELSE
      LET owner == OwnerOf(e)
          b     == owner.index + 1
      IN  IF b \notin 1..NumBuckets
          THEN [bpc |-> "panic",
                name |-> IF e.type = EvtTypeBankFile THEN e.name ELSE bankNameCurr,
                banks |-> banks, errs |-> 0]
          ELSE IF e.type = EvtTypeBankFile
          THEN [bpc |-> "scan", name |-> e.name,
                banks |-> [banks EXCEPT ![b] = Register(banks[b], e, owner)],
                errs |-> 0]
          ELSE IF ~MapGet(banks[b], bankNameCurr).nil
          THEN LET r == AddGameEvent(banks[b][bankNameCurr], e)
               IN  [bpc |-> "scan", name |-> bankNameCurr,
                    banks |-> [banks EXCEPT ![b][bankNameCurr] = r.bank],
                    errs |-> IF r.err THEN 1 ELSE 0]
          ELSE [bpc |-> "scan", name |-> bankNameCurr, banks |-> banks, errs |-> 0]

Scan ==
    /\ bpc = "scan"
    /\ Len(GameEvts) < (IF mode = "users" THEN MaxEvents ELSE MaxDocEvents)
    /\ \E e \in NextEvents(Len(GameEvts) + 1) :
         LET r == ScanOne(e)
         IN  /\ GameEvts' = Append(GameEvts, e)
             /\ bpc' = r.bpc
             /\ bankNameCurr' = r.name
             /\ banks' = r.banks
             /\ addErrs' = addErrs + r.errs
    /\ UNCHANGED <<keying, mode, nPlayers, slots, outs>>
    /\ UNCHANGED <<repVars, added, trkVars>>

\* The stream is exhausted: the range loop ends and the banks are returned.
EndOfStream ==
    /\ bpc = "scan"
    /\ bpc' = "done"
    /\ UNCHANGED <<keying, mode, nPlayers, slots, GameEvts, bankNameCurr, banks,
                   addErrs, outs>>
    /\ UNCHANGED <<repVars, added, trkVars>>

\* A caller adds an event of any type to one of the banks the pass returned.
AddEvent ==
    /\ bpc = "done"
    /\ added = <<>>
    /\ \E b \in 1..Len(banks), n \in BankNames, e \in NextEvents(Len(GameEvts) + 1) :
         /\ ~banks[b][n].nil
         /\ LET r == AddGameEvent(banks[b][n], e)
            IN  /\ banks' = [banks EXCEPT ![b][n] = r.bank]
                /\ added' = <<[evt |-> e, before |-> banks[b][n],
                               after |-> r.bank, err |-> r.err]>>
    /\ UNCHANGED <<keying, mode, nPlayers, slots, GameEvts, bpc, bankNameCurr,
                   addErrs, outs>>
    /\ UNCHANGED <<repVars, trkVars>>

----------------------------------------------------------------------------
(* bankrecover: Bank.WriteTo                                               *)

\* Clock readings of time.Now(): two runs read the same value or different ones.
Times == {1, 2}

\* Variant of ValueKinds: the first two names change places.
ValueKindsSwapped == <<"flag", "fixed", "int", "string", "point", "unit", "text">>
\* The value-kind names indexed by the type code, bank.go lines 153-161.
ValueKinds == <<"fixed", "flag", "int", "string", "point", "unit", "text">>

HexDigits == <<"0", "1", "2", "3", "4", "5", "6", "7",
               "8", "9", "A", "B", "C", "D", "E", "F">>

\* fmt.Fprintf(sb, "%02X", v) for a byte v, bank.go line 169.
Hex02X(v) == <<HexDigits[(v \div 16) + 1], HexDigits[(v % 16) + 1]>>

RECURSIVE HexString(_)
HexString(bytes) ==
    IF bytes = <<>> THEN <<>> ELSE Hex02X(Head(bytes)) \o HexString(Tail(bytes))

\* An etree element: tag, attributes in creation order, child elements.
Elem(tag, attrs, kids) == [tag |-> tag, attrs |-> attrs, kids |-> kids]
Attr(key, value)       == [key |-> key, value |-> value]

\* Element pointers of WriteTo.  eCurrSection is nil (0) or the index of a
\* child of the root.  eCurrKey is nil, an element created on a nil receiver
\* and attached to nothing (detached), or a child k of root child s.
NilKey      == [s |-> 0, k |-> 0]
DetachedKey == [s |-> -1, k |-> 0]

\* The element tag of a value, bank.go line 152 / part_003 line 186.
ValueTag(e) == IF keying = "player" THEN "Value" ELSE e.name

\* The state of the walk before the first event, bank.go lines 132-133.
Walk0 == [root |-> <<>>, sec |-> 0, key |-> NilKey, fault |-> FALSE, cause |-> ""]

\* What a fault of the walk was raised by.
NilReceiver     == "nil receiver"
IndexOutOfRange == "index out of range"

\* case EvtTypeBankValue, bank.go lines 147-162 (also reached by the
\* fallthrough of a Key event that carries a type).
WalkValue(w, e, nilPanics) ==
    IF e.vtype = 7
    THEN w
    ELSE IF w.key = NilKey /\ nilPanics
    THEN [w EXCEPT !.fault = TRUE, !.cause = NilReceiver]
    ELSE IF e.vtype \notin 0..6
    THEN [w EXCEPT !.fault = TRUE, !.cause = IndexOutOfRange]
    ELSE LET v == Elem(ValueTag(e), <<Attr(ValueKinds[e.vtype + 1], <<e.data>>)>>, <<>>)
         IN  IF w.key.s <= 0
             THEN w
             ELSE [w EXCEPT !.root[w.key.s].kids[w.key.k].kids = Append(@, v)]

\* case EvtTypeBankKey, bank.go lines 140-146.
WalkKey(w, e, nilPanics) ==
    IF w.sec = 0 /\ nilPanics
    THEN [w EXCEPT !.fault = TRUE, !.cause = NilReceiver]
    ELSE LET k  == Elem("Key", <<Attr("name", <<e.name>>)>>, <<>>)
             w1 == IF w.sec = 0
                   THEN [w EXCEPT !.key = DetachedKey]
                   ELSE [w EXCEPT !.root[w.sec].kids = Append(@, k),
                                  !.key = [s |-> w.sec,
                                           k |-> Len(w.root[w.sec].kids) + 1]]
         IN  IF ~e.hasType THEN w1 ELSE WalkValue(w1, e, nilPanics)

\* case EvtTypeBankSection, bank.go lines 136-139.
WalkSection(w, e) ==
    [w EXCEPT !.root = Append(@, Elem("Section", <<Attr("name", <<e.name>>)>>, <<>>)),
              !.sec  = Len(w.root) + 1]

\* case EvtTypeBankSignature, bank.go lines 163-174.
WalkSignature(w, e) ==
    LET attrs == IF Len(e.sig) > 0 THEN <<Attr("value", HexString(e.sig))>> ELSE <<>>
    IN  [w EXCEPT !.root = Append(@, Elem("Signature", attrs, <<>>)),
                  !.sec  = Len(w.root) + 1]

\* The body of the loop of WriteTo, bank.go lines 134-176.
WalkOne(w, e, nilPanics) ==
    CASE e.type = EvtTypeBankSection   -> WalkSection(w, e)
      [] e.type = EvtTypeBankKey       -> WalkKey(w, e, nilPanics)
      [] e.type = EvtTypeBankValue     -> WalkValue(w, e, nilPanics)
      [] e.type = EvtTypeBankSignature -> WalkSignature(w, e)
      [] OTHER                         -> w

RECURSIVE Walk(_, _, _)
Walk(w, evts, nilPanics) ==
    IF evts = <<>> \/ w.fault
    THEN w
    ELSE Walk(WalkOne(w, Head(evts), nilPanics), Tail(evts), nilPanics)

\* The comments of the root element, bank.go lines 124-130.
\* Variant: the clock reading also goes into the Player comment.
CommentsStamped(bank, now) ==
    <<<<"Bank recovered from a replay">>, <<"time", now>>, <<"Title: ", "title">>,
      <<"Version: ", "version">>, <<"Loops: ", "loops">>, <<"Length: ", "length">>,
      <<"Player: ", bank.owner.toon, now>>>>

Comments(bank, now) ==
    <<<<"Bank recovered from a replay">>, <<"time", now>>, <<"Title: ", "title">>,
      <<"Version: ", "version">>, <<"Loops: ", "loops">>, <<"Length: ", "length">>,
      <<"Player: ", bank.owner.toon>>>>

\* Bank.WriteTo, bank.go lines 119-180: the document written, or a fault.
WriteTo(bank, now, nilPanics) ==
    LET w == Walk(Walk0, bank.GameEvents, nilPanics)
    IN  [fault    |-> w.fault,
         cause    |-> w.cause,
         version  |-> "1",
         comments |-> IF w.fault THEN <<>> ELSE Comments(bank, now),
         root     |-> IF w.fault THEN <<>> ELSE w.root]

\* Banks the pass has returned.
BankIds ==
    {id \in (1..Len(banks)) \X BankNames : ~banks[id[1]][id[2]].nil}

\* A call of WriteTo on one of the returned banks.  A nil receiver of
\* etree's CreateElement either yields a detached element or faults.
Write ==
    /\ bpc = "done"
    /\ Len(outs) < 2
    /\ \E id \in BankIds, now \in Times, nilPanics \in BOOLEAN :
         /\ outs # <<>> => (outs[1].id = id /\ outs[1].nilPanics = nilPanics)
         /\ outs' = Append(outs, [id |-> id, now |-> now, nilPanics |-> nilPanics,
                                  doc |-> WriteTo(banks[id[1]][id[2]], now, nilPanics)])
    /\ UNCHANGED <<keying, mode, nPlayers, slots, GameEvts, bpc, bankNameCurr,
                   banks, addErrs>>
    /\ UNCHANGED <<repVars, added, trkVars>>

----------------------------------------------------------------------------
(* repm: TrackerEvts.init, angleToClock, calcSQ                            *)

\* Bounds of the tracker run: events of the stream, player ids, and full
\* turns an angle may be away from zero.
MaxTrkEvents == 4
MaxPid       == 2
MaxTurns     == 2

TrackerEvtIDPlayerSetup == "PlayerSetup"
TrackerEvtIDPlayerStats == "PlayerStats"
TrackerEvtIDUnitBorn    == "UnitBorn"

Pids == 1..MaxPid

\* rep.InitData.GameDescription.MapSizeX() and MapSizeY().
MapSizeX == 4
MapSizeY == 4

\* A tracker event with the fields init reads.
TrkEvt(id, loop, pid, slotId, unit, x, y, used) ==
    [ID |-> id, loop |-> loop, playerId |-> pid, slotId |-> slotId,
     userId |-> pid - 1, unitTypeName |-> unit, x |-> x, y |-> y,
     scoreValueFoodUsed |-> used, scoreValueFoodMade |-> 10,
     scoreValueMineralsCurrent |-> 100 * pid,
     scoreValueVespeneCurrent  |-> IF used >= 10 THEN 150 ELSE 0,
     scoreValueMineralsCollectionRate |-> 1000 * pid,
     scoreValueVespeneCollectionRate  |-> 0]

\* The events a tracker stream is drawn from: player setups (player p in
\* lobby slot p - 1) at loop 0 and one
\* at loop 1, stats samples with the supply used below and at the supply
\* made, main buildings east and north of the map centre, and another unit.
TrkEvents ==
    {TrkEvt(TrackerEvtIDPlayerSetup, 0, p, p - 1, "", 0, 0, 0) : p \in Pids}
    \cup {TrkEvt(TrackerEvtIDPlayerSetup, 1, 1, 0, "", 0, 0, 0)}
    \cup {TrkEvt(TrackerEvtIDPlayerStats, 1, p, 0, "", 0, 0, u) : p \in Pids, u \in {9, 10}}
    \cup {TrkEvt(TrackerEvtIDUnitBorn, 0, 1, 0, "Nexus", MapSizeX, MapSizeY \div 2, 0),
          TrkEvt(TrackerEvtIDUnitBorn, 0, 1, 0, "Hatchery", MapSizeX \div 2, MapSizeY, 0),
          TrkEvt(TrackerEvtIDUnitBorn, 0, 1, 0, "Probe", 0, 0, 0)}

\* isMainBuilding, part_001 lines 102-104.
isMainBuilding(unitTypeName) ==
    unitTypeName \in {"Nexus", "CommandCenter", "Hatchery"}

\* Angles are counted in units of pi/24, so that the hour boundaries (odd
\* multiples of pi/12) and the angles between them are integers.
Pi      == 24
oneHour == Pi \div 6

\* math.Atan2(dy, dx) on the axes and the diagonals.
Atan2(dy, dx) ==
    CASE dx > 0 /\ dy = 0   -> 0
      [] dx > 0 /\ dy = dx  -> Pi \div 4
      [] dx = 0 /\ dy > 0   -> Pi \div 2
      [] dx < 0 /\ dy = -dx -> 3 * (Pi \div 4)
      [] dx < 0 /\ dy = 0   -> Pi
      [] dx < 0 /\ dy = dx  -> -3 * (Pi \div 4)
      [] dx = 0 /\ dy < 0   -> -(Pi \div 2)
      [] dx > 0 /\ dy = -dx -> -(Pi \div 4)
      [] OTHER              -> 0

\* Iterations a normalisation loop of angleToClock is followed for.
LoopFuel == MaxTurns + 2

\* The angle is a float64 and pi/6 is not one: the value the code holds for
\* the exact angle a is a itself or, when low, a value just below a.  Only
\* comparisons and truncations of an angle that is exactly on a bound see
\* the difference.
Less(a, bound, low) == IF low THEN a <= bound ELSE a < bound

\* Variant of AddTurns: the loop adds nothing to the angle.
RECURSIVE AddTurnsStuck(_, _, _)
AddTurnsStuck(a, low, fuel) ==
    IF ~Less(a, 0, low) \/ fuel = 0 THEN a ELSE AddTurnsStuck(a, low, fuel - 1)
\* for angle < 0 { angle += oneHour * 12 }, part_001 lines 125-127.
RECURSIVE AddTurns(_, _, _)
AddTurns(a, low, fuel) ==
    IF ~Less(a, 0, low) \/ fuel = 0
    THEN a
    ELSE AddTurns(a + oneHour * 12, low, fuel - 1)

\* for angle >= oneHour*12 { angle -= oneHour * 12 }, part_001 lines 128-130.
RECURSIVE SubTurns(_, _, _)
SubTurns(a, low, fuel) ==
    IF Less(a, oneHour * 12, low) \/ fuel = 0
    THEN a
    ELSE SubTurns(a - oneHour * 12, low, fuel - 1)

\* int32(a / b) of two floats: the quotient truncated toward zero; a value
\* just below a multiple of b belongs to the quotient before.
TruncDiv(a, b, low) ==
    LET v == IF low /\ a % b = 0 THEN a - 1 ELSE a
    IN  IF v >= 0 THEN v \div b ELSE -((-v) \div b)

\* The angle after the shift and the two loops, part_001 lines 122-130.
\* oneHour*3.5 is 7 * (oneHour / 2).
Normalised(a, low) ==
    SubTurns(AddTurns(-a + 7 * (oneHour \div 2), low, LoopFuel), low, LoopFuel)

\* angleToClock, part_001 lines 113-138.
angleToClock(a, low) ==
    LET hour == TruncDiv(Normalised(a, low), oneHour, low)
    IN  IF hour = 0 THEN 12 ELSE hour

\* calcSQ, part_001 lines 149-151: int32(35*(0.00137*I - ln(U)) + 240 + 0.5),
\* kept as the term of its two arguments (the logarithm has no integer form).
calcSQ(unspentResources, income) ==
    [fn |-> "calcSQ", unspentResources |-> unspentResources, income |-> income]
\* The zero value of the SQ field.
ZeroSQ == [fn |-> "0", unspentResources |-> 0, income |-> 0]

\* A missing map entry (nil), a new PlayerDesc and a new stats record.
NoDesc == [nil |-> TRUE, PlayerID |-> 0, SlotID |-> 0, UserID |-> 0,
           StartLocX |-> 0, StartLocY |-> 0, StartDir |-> 0,
           SQ |-> ZeroSQ, SupplyCappedPercent |-> 0]
NewDesc(e) == [NoDesc EXCEPT !.nil = FALSE, !.PlayerID = e.playerId,
                             !.SlotID = e.slotId, !.UserID = e.userId]
NoStats  == [nil |-> TRUE, samples |-> 0, unspents |-> 0, incomes |-> 0, supCapped |-> 0]
NewStats == [NoStats EXCEPT !.nil = FALSE]

\* First loop of init, part_001 lines 34-48: the player setups before the
\* first event above loop 0; the first setup of a player id wins.
RECURSIVE SetupPass(_, _)
SetupPass(t, evts) ==
    IF evts = <<>> THEN t
    ELSE LET e == Head(evts)
         IN  IF e.loop > 0 THEN t
             ELSE IF e.ID # TrackerEvtIDPlayerSetup THEN SetupPass(t, Tail(evts))
             ELSE IF ~t.descs[e.playerId].nil THEN SetupPass(t, Tail(evts))
             ELSE SetupPass([descs |-> [t.descs EXCEPT ![e.playerId] = NewDesc(e)],
                             stats |-> [t.stats EXCEPT ![e.playerId] = NewStats]],
                            Tail(evts))

\* The start location branch of the second loop, part_001 lines 56-65.  The
\* angles of Atan2 above are a quarter of an hour or more away from every
\* hour boundary, so the rounding of the float does not show.
StartLoc(pd, e) ==
    LET cx == MapSizeX \div 2
        cy == MapSizeY \div 2
    IN  IF e.loop = 0 /\ e.ID = TrackerEvtIDUnitBorn
           /\ isMainBuilding(e.unitTypeName) /\ ~pd.nil
        THEN [pd EXCEPT !.StartLocX = e.x, !.StartLocY = e.y,
                        !.StartDir = angleToClock(Atan2(e.y - cy, e.x - cx), FALSE)]
        ELSE pd

\* Variant of Sample: supply capped only when more is used than made.
SampleStrict(st, e) ==
    IF e.ID = TrackerEvtIDPlayerStats /\ ~st.nil
    THEN [st EXCEPT !.samples = @ + 1,
                    !.unspents = @ + e.scoreValueMineralsCurrent
                                   + e.scoreValueVespeneCurrent,
                    !.incomes = @ + e.scoreValueMineralsCollectionRate
                                  + e.scoreValueVespeneCollectionRate,
                    !.supCapped = IF e.scoreValueFoodUsed > e.scoreValueFoodMade
                                  THEN @ + 1 ELSE @]
    ELSE st
\* The stats branch of the second loop, part_001 lines 67-79.
Sample(st, e) ==
    IF e.ID = TrackerEvtIDPlayerStats /\ ~st.nil
    THEN [st EXCEPT !.samples = @ + 1,
                    !.unspents = @ + e.scoreValueMineralsCurrent
                                   + e.scoreValueVespeneCurrent,
                    !.incomes = @ + e.scoreValueMineralsCollectionRate
                                  + e.scoreValueVespeneCollectionRate,
                    !.supCapped = IF e.scoreValueFoodUsed >= e.scoreValueFoodMade
                                  THEN @ + 1 ELSE @]
    ELSE st

\* Second loop of init, part_001 lines 55-80, over the whole stream.
RECURSIVE StatsPass(_, _)
StatsPass(t, evts) ==
    IF evts = <<>> THEN t
    ELSE LET e == Head(evts)
             p == e.playerId
         IN  StatsPass([descs |-> [t.descs EXCEPT ![p] = StartLoc(@, e)],
                        stats |-> [t.stats EXCEPT ![p] = Sample(@, e)]],
                       Tail(evts))

DivideByZero == "integer divide by zero"

\* Variant of FinishStats: the sample count is not tested before it divides.
FinishStatsUnguarded(pd, st) ==
    IF st.nil
    THEN [pd |-> pd, fault |-> ""]
    ELSE IF st.samples = 0
    THEN [pd |-> pd, fault |-> DivideByZero]
    ELSE [pd |-> [pd EXCEPT !.SQ = calcSQ(st.unspents \div st.samples,
                                          st.incomes \div st.samples),
                            !.SupplyCappedPercent =
                                (st.supCapped * 100) \div st.samples],
          fault |-> ""]
\* Third loop of init for one player, part_001 lines 83-90.
FinishStats(pd, st) ==
    IF st.nil \/ st.samples = 0
    THEN [pd |-> pd, fault |-> ""]
    ELSE [pd |-> [pd EXCEPT !.SQ = calcSQ(st.unspents \div st.samples,
                                          st.incomes \div st.samples),
                            !.SupplyCappedPercent =
                                (st.supCapped * 100) \div st.samples],
          fault |-> ""]

\* The three loops on the stream: descriptors, stats and a fault if any.
Analyse(evts) ==
    LET t0 == [descs |-> [p \in Pids |-> NoDesc], stats |-> [p \in Pids |-> NoStats]]
        t2 == StatsPass(SetupPass(t0, evts), evts)
        S  == {p \in Pids : ~t2.descs[p].nil}
        f  == [p \in Pids |-> FinishStats(t2.descs[p], t2.stats[p])]
    IN  [descs |-> [p \in Pids |-> f[p].pd],
         stats |-> t2.stats,
         fault |-> IF \E p \in S : f[p].fault # "" THEN DivideByZero ELSE ""]

\* Last loop of init, part_001 lines 93-97: the maps the loop can leave,
\* one per order in which the range statement visits the descriptors.
ToonMaps(descs) ==
    LET S == {p \in Pids : ~descs[p].nil}
        H == {slots[descs[p].SlotID + 1].toon : p \in S}
    IN  {m \in [H -> S] : \A h \in H : slots[descs[m[h]].SlotID + 1].toon = h}

\* The environment puts one more event on the tracker stream.
TrkFeed ==
    /\ tpc = "feed"
    /\ Len(TrkEvts) < MaxTrkEvents
    /\ \E e \in TrkEvents : TrkEvts' = Append(TrkEvts, e)
    /\ UNCHANGED <<tpc, PIDPlayerDescMap, ToonPlayerDescMap, tfault, angle, clock>>
    /\ UNCHANGED <<repVars, bankVars, added>>

\* TrackerEvts.init, part_001 lines 19-98.
TrackerInit ==
    /\ tpc = "feed"
    /\ LET r   == Analyse(TrkEvts)
           bad == \E p \in Pids : /\ ~r.descs[p].nil
                                  /\ r.descs[p].SlotID + 1 \notin 1..Len(slots)
       IN  /\ PIDPlayerDescMap' = r.descs
           /\ IF r.fault # ""
              THEN tpc' = "panic" /\ tfault' = r.fault /\ ToonPlayerDescMap' = <<>>
              ELSE IF bad
              THEN tpc' = "panic" /\ tfault' = IndexOutOfRange
                   /\ ToonPlayerDescMap' = <<>>
              ELSE /\ tpc' = "done"
                   /\ tfault' = ""
                   /\ ToonPlayerDescMap' \in ToonMaps(r.descs)
    /\ UNCHANGED <<TrkEvts, angle, clock>>
    /\ UNCHANGED <<repVars, bankVars, added>>

\* A call of angleToClock on the angle of the run.
NoClock == 0
ClockCall ==
    /\ tpc = "clock"
    /\ clock = NoClock
    /\ \E low \in BOOLEAN : clock' = angleToClock(angle, low)
    /\ UNCHANGED <<tpc, TrkEvts, PIDPlayerDescMap, ToonPlayerDescMap, tfault, angle>>
    /\ UNCHANGED <<repVars, bankVars, added>>

----------------------------------------------------------------------------
(* Specifications *)

\* No tracker run and no angleToClock call.
TrkIdle ==
    /\ tpc = "idle"
    /\ TrkEvts = <<>>
    /\ PIDPlayerDescMap = <<>>
    /\ ToonPlayerDescMap = <<>>
    /\ tfault = ""
    /\ angle = 0
    /\ clock = NoClock

RepIdle ==
    /\ pc = "idle"
    /\ want = [s \in {"game", "message", "tracker"} |-> FALSE]
    /\ closeMPQ = FALSE
    /\ rep = Rep0
    /\ files = [f \in Resources |-> "unread"]
    /\ lookups = <<>>
    /\ decoded = [s \in {"game", "message", "tracker"} |-> "none"]
    /\ fault = "none"
    /\ failedAt = "none"
    /\ ret = NoRet
    /\ mCloses = 0
    /\ userCloses = 0

\* Session construction and release.
Init == RepInit /\ BankIdle /\ TrkIdle
Next == RepNext
Spec == Init /\ [][Next]_vars

\* The reconstruction pass over the events of several users.
BanksInit ==
    /\ RepIdle
    /\ mode = "users"
    /\ keying \in {"player", "slot"}
    /\ \/ keying = "player" /\ nPlayers \in 0..MaxPlayers /\ slots = <<>>
       \/ keying = "slot" /\ nPlayers = 0 /\ slots \in SlotTables
    /\ BankStart
    /\ TrkIdle
BanksNext == Scan \/ EndOfStream
SpecBanks == BanksInit /\ [][BanksNext]_vars

\* The reconstruction pass over the events of one user, then WriteTo.
WriteInit ==
    /\ RepIdle
    /\ mode = "values"
    /\ keying \in {"player", "slot"}
    /\ nPlayers = 1
    /\ slots = <<[uid |-> 0, toon |-> "T"]>>
    /\ BankStart
    /\ TrkIdle
WriteNext == Scan \/ EndOfStream \/ Write
SpecWrite == WriteInit /\ [][WriteNext]_vars

\* The pass over the events of the players of a replay, then AddGameEvent
\* called on a returned bank.
AddInit ==
    /\ RepIdle
    /\ mode = "users"
    /\ keying = "player"
    /\ nPlayers = MaxPlayers
    /\ slots = <<>>
    /\ BankStart
    /\ TrkIdle
AddNext == Scan \/ EndOfStream \/ AddEvent
SpecAdd == AddInit /\ [][AddNext]_vars

\* Lobby slot tables in which slot i is taken by user i - 1.
TrkSlotTables ==
    {t \in SlotTables : \A i \in 1..Len(t) : t[i].uid = (i - 1) % (MaxUser + 1)}

\* The reconstruction pass on replays whose slots are taken in user order.
PassInit ==
    /\ RepIdle
    /\ mode = "users"
    /\ keying \in {"player", "slot"}
    /\ \/ keying = "player" /\ nPlayers \in 0..MaxPlayers /\ slots = <<>>
       \/ keying = "slot" /\ nPlayers = 0 /\ slots \in TrkSlotTables
    /\ BankStart
    /\ TrkIdle
PassNext == Scan \/ EndOfStream
SpecPass == PassInit /\ [][PassNext]_vars

\* TrackerEvts.init on a tracker stream.
TrackerStart ==
    /\ RepIdle
    /\ keying = "slot"
    /\ mode = "users"
    /\ nPlayers = 0
    /\ slots \in TrkSlotTables
    /\ GameEvts = <<>>
    /\ bpc = "idle"
    /\ bankNameCurr = ""
    /\ banks = <<>>
    /\ addErrs = 0
    /\ outs = <<>>
    /\ added = <<>>
    /\ tpc = "feed"
    /\ TrkEvts = <<>>
    /\ PIDPlayerDescMap = <<>>
    /\ ToonPlayerDescMap = <<>>
    /\ tfault = ""
    /\ angle = 0
    /\ clock = NoClock
TrackerNext == TrkFeed \/ TrackerInit
SpecTracker == TrackerStart /\ [][TrackerNext]_vars

\* TrackerEvts.init on a replay whose slots all carry an account handle.
StatsStart ==
    /\ TrackerStart
    /\ Len(slots) = MaxSlots
    /\ \A i \in 1..Len(slots) : slots[i].toon = "T"
SpecStats == StatsStart /\ [][TrackerNext]_vars

\* angleToClock on one angle.
ClockInit ==
    /\ RepIdle
    /\ BankIdle
    /\ tpc = "clock"
    /\ TrkEvts = <<>>
    /\ PIDPlayerDescMap = <<>>
    /\ ToonPlayerDescMap = <<>>
    /\ tfault = ""
    /\ angle \in (-(MaxTurns * 2 * Pi))..(MaxTurns * 2 * Pi)
    /\ clock = NoClock
ClockNext == ClockCall
SpecClock == ClockInit /\ [][ClockNext]_vars

----------------------------------------------------------------------------
(* Properties of session construction and release (specification Spec)     *)

Streams == {"game", "message", "tracker"}

StreamFile(s) ==
    CASE s = "game"    -> "replay.game.events"
      [] s = "message" -> "replay.message.events"
      [] s = "tracker" -> "replay.tracker.events"

StreamFlag(s) ==
    CASE s = "game"    -> rep.GameEvtsErr
      [] s = "message" -> rep.MessageEvtsErr
      [] s = "tracker" -> rep.TrackerEvtsErr

\* C1: when newRep has returned an error (ErrInvalidRepFile,
\* ErrUnsupportedRepVersion or ErrDecoding, the last also after a runtime
\* fault), m.Close() has been called exactly once and the returned session is
\* nil; when it has returned success, m.Close() has not been called and the
\* returned session holds the archive handle.
C1_ArchiveReleasedOnFailure ==
    (pc = "done") =>
        /\ ret.err \in {ErrNone, ErrInvalid, ErrUnsupported, ErrDecoding}
        /\ (ret.err # ErrNone) => (mCloses = 1 /\ ret.rep = "nil" /\ userCloses = 0)
        /\ (ret.err = ErrNone /\ userCloses = 0) =>
               (mCloses = 0 /\ ret.rep = "rep" /\ rep.m = "mpq" /\ ~closeMPQ)

C1_Witness ==
    /\ pc = "done"
    /\ fault = "tracker"
    /\ ret.err = ErrDecoding
    /\ ret.rep = "nil"
    /\ mCloses = 1

\* C2: after one or more Close calls on a successfully constructed session
\* the archive handle has been released exactly once: the second and every
\* later Close does not reach the archive handle again.
C2_CloseReleasesOnce ==
    (pc = "done" /\ ret.rep = "rep" /\ userCloses >= 1) => mCloses = 1

\* C3: a runtime fault raised at any step of newRep (header decode, protocol
\* lookup, section decode, event-stream decode, TrackerEvts.init) is returned
\* as ErrDecoding with a nil session, and no fault leaves newRep.
C3_FaultContained ==
    /\ ~ret.escaped
    /\ (pc = "done" /\ fault # "none") =>
           (ret.err = ErrDecoding /\ ret.rep = "nil" /\ failedAt = "none")
    /\ (pc = "done" /\ ret.err = ErrDecoding) => fault # "none"

C3_Witness ==
    /\ pc = "done"
    /\ fault = "protocol"
    /\ ret.err = ErrDecoding
    /\ ~ret.escaped

\* C4: once the header has decoded and the protocol lookup has run, newRep
\* uses the protocol of the header's base build if that lookup found one,
\* otherwise the protocol of MaxBaseBuild if that lookup found one, and
\* returns ErrUnsupportedRepVersion exactly when both lookups found none; a
\* header that fails to decode ends newRep with ErrInvalidRepFile before any
\* protocol lookup.
C4_ProtocolResolution ==
    /\ (failedAt = "header") => (ret.err = ErrInvalid /\ lookups = <<>>)
    /\ (lookups # <<>>) =>
         /\ lookups[1].b = rep.header
         /\ (lookups[1].p # NoProtocol) =>
                (Len(lookups) = 1 /\ rep.protocol = lookups[1].p
                   /\ rep.protocol = rep.header /\ failedAt # "protocol")
         /\ (lookups[1].p = NoProtocol) =>
                /\ Len(lookups) = 2
                /\ lookups[2].b = MaxBaseBuild
                /\ (lookups[2].p # NoProtocol) =>
                       (rep.protocol = MaxBaseBuild /\ failedAt # "protocol")
                /\ (lookups[2].p = NoProtocol) =>
                       (failedAt = "protocol" /\ ret.err = ErrUnsupported)
    /\ (ret.err = ErrUnsupported) =>
         (Len(lookups) = 2 /\ lookups[1].p = NoProtocol /\ lookups[2].p = NoProtocol)
    /\ (pc \notin {"header", "protocol", "done"}) => rep.protocol # NoProtocol

C4_Witness ==
    /\ pc = "done"
    /\ ret.err = ErrNone
    /\ Len(lookups) = 2
    /\ rep.header # MaxBaseBuild
    /\ rep.protocol = MaxBaseBuild

\* The fallback rule of one section with a backup resource.
BackupRule(step, src, prim, back) ==
    /\ (files[back] # "unread") => Unusable(files[prim])
    /\ (src = "primary") <=> (files[prim] = "data")
    /\ (src = "backup") <=> (Unusable(files[prim]) /\ files[back] = "data")
    /\ (failedAt = step) <=> (Unusable(files[prim]) /\ Unusable(files[back]))
    /\ (failedAt = step) => ret.err = ErrInvalid

\* C5: for the details section and for the init-data section, the backup
\* resource is read only when the primary is absent or empty (or unreadable);
\* the section is decoded from the primary when that is non-empty, from the
\* backup when only the backup is non-empty, and newRep fails there with
\* ErrInvalidRepFile exactly when both are absent or empty.  The other
\* sections have no fallback: a failed read of their resource ends newRep.
C5_BackupFallback ==
    /\ BackupRule("details", rep.details, "replay.details", "replay.details.backup")
    /\ BackupRule("initData", rep.initData, "replay.initData",
                  "replay.initData.backup")
    /\ (files["replay.attributes.events"] = "err") =>
           (failedAt = "attributes" /\ ret.err = ErrInvalid)
    /\ (files["replay.gamemetadata.json"] = "err") =>
           (failedAt = "metadata" /\ ret.err = ErrInvalid)
    /\ \A s \in Streams :
           (files[StreamFile(s)] = "err") => (failedAt = s /\ ret.err = ErrInvalid)

C5_Witness ==
    /\ pc = "done"
    /\ ret.err = ErrNone
    /\ rep.details = "backup"
    /\ files["replay.details"] = "absent"
    /\ rep.initData = "primary"
    /\ files["replay.initData.backup"] = "unread"

\* C6: a decode failure of a requested event stream does not end newRep (at
\* a stream step only a failed read of the resource does); on success the
\* error flag of each stream is true exactly when that stream was requested
\* and its own decoding failed.
C6_StreamErrorFlags ==
    /\ \A s \in Streams : (failedAt = s) => files[StreamFile(s)] = "err"
    /\ \A s \in Streams : (decoded[s] # "none") => want[s]
    /\ (pc = "done" /\ fault = "none" /\ failedAt = "none") =>
           /\ ret.rep = "rep"
           /\ ret.err = ErrNone
           /\ \A s \in Streams : StreamFlag(s) = (want[s] /\ decoded[s] = "fail")

C6_Witness ==
    /\ pc = "done"
    /\ ret.rep = "rep"
    /\ decoded["game"] = "fail"
    /\ decoded["message"] = "none"
    /\ decoded["tracker"] = "ok"
    /\ rep.GameEvtsErr
    /\ ~rep.MessageEvtsErr
    /\ ~rep.TrackerEvtsErr

----------------------------------------------------------------------------
(* Properties of the reconstruction pass (SpecBanks, SpecPass, SpecAdd)    *)

\* Positions before n of the tick-0 BankFile events of user u.
EarlierFiles(u, n) ==
    {i \in 1..(n - 1) : /\ GameEvts[i].type = EvtTypeBankFile
                        /\ GameEvts[i].user = u
                        /\ GameEvts[i].loop = 0}

Latest(S) == CHOOSE i \in S : \A j \in S : j <= i

Holds(bank, e) == \E j \in 1..Len(bank.GameEvents) : bank.GameEvents[j] = e

\* C7: a tick-0 content event of user u, read when u has had a BankFile event
\* earlier in the pass, is appended to the document opened by the most recent
\* BankFile event of u, also when a BankFile event of another user with
\* another bank name came in between.
C7_RoutedToOwnBank ==
    (GameEvts # <<>>) =>
        LET n == Len(GameEvts)
            e == GameEvts[n]
            F == EarlierFiles(e.user, n)
        IN  (e.type \in ContentTypes /\ e.loop = 0 /\ F # {}) =>
                LET f == GameEvts[Latest(F)]
                IN  \E b \in 1..Len(banks) :
                        /\ ~banks[b][f.name].nil
                        /\ banks[b][f.name].GameEvents[1] = f
                        /\ Holds(banks[b][f.name], e)

\* C8: a tick-0 content event whose user has had no BankFile event earlier in
\* the pass is dropped: the pass goes on without fault or error, and every
\* bucket is left as it was (no document created, none changed).
C8_OrphanEventDropped ==
    [][(Len(GameEvts') = Len(GameEvts) + 1) =>
          LET n == Len(GameEvts')
              e == GameEvts'[n]
          IN  (/\ e.type \in ContentTypes
               /\ e.loop = 0
               /\ {i \in 1..(n - 1) : /\ GameEvts'[i].type = EvtTypeBankFile
                                      /\ GameEvts'[i].user = e.user} = {})
              => (banks' = banks /\ bpc' = "scan" /\ addErrs' = addErrs)]_vars

\* C11: the pass ends at the first event whose loop is above 0, whatever its
\* type: no event is read after it, and the event itself is in no document
\* (it creates, replaces and extends nothing).
C11_StopsAtFirstLateEvent ==
    \A i \in 1..Len(GameEvts) :
        GameEvts[i].loop > 0 =>
            /\ i = Len(GameEvts)
            /\ bpc = "done"
            /\ \A b \in 1..Len(banks) : \A n \in BankNames :
                   ~Holds(banks[b][n], GameEvts[i])

\* A late Section event of the user whose document is the current one ended
\* the pass.
C11_Witness ==
    /\ bpc = "done"
    /\ Len(GameEvts) >= 2
    /\ LET e == GameEvts[Len(GameEvts)]
       IN  /\ e.loop > 0
           /\ e.type = EvtTypeBankSection
           /\ \E b \in 1..Len(banks) :
                  /\ ~MapGet(banks[b], bankNameCurr).nil
                  /\ banks[b][bankNameCurr].GameEvents[1].user = e.user
                  /\ b = OwnerOf(e).index + 1

\* C12: a tick-0 BankFile event of a user who already has a document under
\* that name replaces it: the bucket holds under the name one document whose
\* events are that BankFile event alone, and every other entry of every
\* bucket is as it was.
C12_BankFileReplaces ==
    [][(Len(GameEvts') = Len(GameEvts) + 1) =>
          LET e == GameEvts'[Len(GameEvts')]
              B == {b \in 1..Len(banks) :
                      /\ ~banks[b][e.name].nil
                      /\ banks[b][e.name].GameEvents[1].user = e.user}
          IN  (e.type = EvtTypeBankFile /\ e.loop = 0 /\ B # {}) =>
                  /\ bpc' = "scan"
                  /\ \E b \in B :
                        /\ ~banks'[b][e.name].nil
                        /\ banks'[b][e.name].Name = e.name
                        /\ banks'[b][e.name].GameEvents = <<e>>
                        /\ \A c \in 1..Len(banks) : \A n \in BankNames :
                               (c # b \/ n # e.name) =>
                                   banks'[c][n] = banks[c][n]]_vars

\* A document that had a content event appended was replaced by a second
\* BankFile event of the same user and name.
C12_Witness ==
    /\ Len(GameEvts) = 3
    /\ GameEvts[1].type = EvtTypeBankFile
    /\ GameEvts[3].type = EvtTypeBankFile
    /\ GameEvts[2].type \in ContentTypes
    /\ GameEvts[3].loop = 0
    /\ GameEvts[1].user = GameEvts[3].user
    /\ GameEvts[2].user = GameEvts[3].user
    /\ GameEvts[1].name = GameEvts[3].name
    /\ \E b \in 1..Len(banks) :
           /\ b = OwnerOf(GameEvts[3]).index + 1
           /\ banks[b][GameEvts[3].name].GameEvents = <<GameEvts[3]>>

\* Position in the stream of an event a document holds.
PosOf(e) == CHOOSE i \in 1..Len(GameEvts) : GameEvts[i] = e

C22_PassNeverFaults ==
    bpc # "panic"

\* The user who holds bucket b: the player with index b - 1, or the user of
\* lobby slot b if that slot carries an account handle.
HoldsBucket(u, b) ==
    IF keying = "player"
    THEN u = b - 1
    ELSE b \in 1..Len(slots) /\ slots[b].uid = u /\ slots[b].toon # ""

\* C23: every event of every document of bucket b, its creating BankFile
\* event included, was sent by the user who holds bucket b; so an event of a
\* user without a slot, or with a slot without account handle, is stored
\* nowhere.
C23_Attribution ==
    \A b \in 1..Len(banks) : \A n \in BankNames :
        ~banks[b][n].nil =>
            \A j \in 1..Len(banks[b][n].GameEvents) :
                HoldsBucket(banks[b][n].GameEvents[j].user, b)

\* C17: AddGameEvent called with a Section, Key, Value or Signature event
\* returns no error and leaves the document with that event appended at the
\* end of its list; called with a BankFile event or an event that is no bank
\* event it returns the error and leaves the list as it was.
C17_AcceptsContentOnly ==
    \A i \in 1..Len(added) :
        LET a == added[i]
        IN  IF a.evt.type \in {EvtTypeBankSection, EvtTypeBankKey,
                               EvtTypeBankValue, EvtTypeBankSignature}
            THEN /\ ~a.err
                 /\ a.after.GameEvents = a.before.GameEvents \o <<a.evt>>
            ELSE /\ a.err
                 /\ a.after.GameEvents = a.before.GameEvents

\* AddGameEvent refused a BankFile event on a document that holds content.
C17_Witness ==
    /\ added # <<>>
    /\ added[1].evt.type = EvtTypeBankFile
    /\ added[1].err
    /\ Len(added[1].before.GameEvents) >= 2

----------------------------------------------------------------------------
(* Properties of TrackerEvts.init (specification SpecStats)                *)

\* Positions of the PlayerStats events of player p in the tracker stream.
SamplesOf(p) ==
    {i \in 1..Len(TrkEvts) : /\ TrkEvts[i].ID = TrackerEvtIDPlayerStats
                             /\ TrkEvts[i].playerId = p}

CappedOf(p) ==
    {i \in SamplesOf(p) : TrkEvts[i].scoreValueFoodUsed >= TrkEvts[i].scoreValueFoodMade}

RECURSIVE SumOver(_, _)
SumOver(S, f) ==
    IF S = {} THEN 0
    ELSE LET i == CHOOSE j \in S : TRUE IN f[i] + SumOver(S \ {i}, f)

UnspentAt ==
    [i \in 1..Len(TrkEvts) |->
        TrkEvts[i].scoreValueMineralsCurrent + TrkEvts[i].scoreValueVespeneCurrent]
IncomeAt ==
    [i \in 1..Len(TrkEvts) |->
        TrkEvts[i].scoreValueMineralsCollectionRate
            + TrkEvts[i].scoreValueVespeneCollectionRate]

\* The player descriptors init has registered.
Described == {p \in Pids : ~PIDPlayerDescMap[p].nil}

\* The account handle of the slot of the descriptor of player p.
HandleOf(p) == slots[PIDPlayerDescMap[p].SlotID + 1].toon

\* C24: after init every descriptor of the player-id map is the entry of the
\* account-handle index under the handle of its slot, and the index is the one
\* every order of the walk over the player-id map yields.
C24_IndexDeterministic ==
    tpc = "done" =>
        /\ \A p \in Described :
               /\ HandleOf(p) \in DOMAIN ToonPlayerDescMap
               /\ ToonPlayerDescMap[HandleOf(p)] = p
        /\ ToonMaps(PIDPlayerDescMap) = {ToonPlayerDescMap}

\* C14: init never divides by a zero sample count, and after init a
\* descriptor of a player with no PlayerStats sample has SQ and
\* SupplyCappedPercent at their zero value, while a descriptor of a player
\* with samples has both computed from the samples of that player alone.
C14_ZeroSamplesLeftUnset ==
    /\ tfault # DivideByZero
    /\ (tpc = "done") =>
         \A p \in Described :
            LET S  == SamplesOf(p)
                n  == Cardinality(S)
                pd == PIDPlayerDescMap[p]
            IN  IF n = 0
                THEN pd.SQ = ZeroSQ /\ pd.SupplyCappedPercent = 0
                ELSE /\ pd.SQ = calcSQ(SumOver(S, UnspentAt) \div n,
                                       SumOver(S, IncomeAt) \div n)
                     /\ pd.SupplyCappedPercent
                            = (100 * Cardinality(CappedOf(p))) \div n

\* Init ended with a player without samples next to a player with samples.
C14_Witness ==
    /\ tpc = "done"
    /\ \E p, q \in Described :
          /\ SamplesOf(p) = {}
          /\ Cardinality(SamplesOf(q)) >= 2
          /\ PIDPlayerDescMap[q].SQ # ZeroSQ

\* C15: after init, the supply-capped percentage of a player with c capped
\* samples out of n > 0 is the largest integer v with v * n <= 100 * c, and
\* it lies in 0..100.
C15_SupplyCappedFloor ==
    (tpc = "done") =>
        \A p \in Described :
            LET n == Cardinality(SamplesOf(p))
                c == Cardinality(CappedOf(p))
                v == PIDPlayerDescMap[p].SupplyCappedPercent
            IN  (n > 0) => /\ v * n <= 100 * c
                           /\ 100 * c < (v + 1) * n
                           /\ v \in 0..100

\* A player with one capped sample out of three: 33 percent.
C15_Witness ==
    /\ tpc = "done"
    /\ \E p \in Described :
          /\ Cardinality(SamplesOf(p)) = 3
          /\ Cardinality(CappedOf(p)) = 1
          /\ PIDPlayerDescMap[p].SupplyCappedPercent = 33

----------------------------------------------------------------------------
(* Properties of angleToClock (specification SpecClock)                    *)

\* The hour the claim gives for the angle k * pi/12.
ClaimedHour(k) ==
    LET h == ((7 - k) % 24) \div 2 IN IF h = 0 THEN 12 ELSE h

OnBoundary(a) == a % 4 = 2

\* The hour before h on the clock face.
HourBefore(h) == IF h = 1 THEN 12 ELSE h - 1

----------------------------------------------------------------------------
(* Properties of WriteTo (specification SpecWrite)                         *)

\* The value elements of a written document: children of the children of
\* the children of the root.
RenderedValues(doc) ==
    {doc.root[x[1]].kids[x[2]].kids[x[3]] :
        x \in {y \in (1..Len(doc.root)) \X (1..MaxDocEvents + 1) \X (1..MaxDocEvents + 1) :
                 /\ y[2] <= Len(doc.root[y[1]].kids)
                 /\ y[3] <= Len(doc.root[y[1]].kids[y[2]].kids)}}

WrittenEvents(o) == banks[o.id[1]][o.id[2]].GameEvents

\* A value-bearing event: a Value, or a Key with an inline type, whose type
\* code names one of the seven value kinds.
ValueBearing(e) ==
    /\ e.type = EvtTypeBankValue \/ (e.type = EvtTypeBankKey /\ e.hasType)
    /\ e.vtype \in 0..6

\* C9: for every stored BankValue event with type code 7 that is followed by
\* a value-bearing event (as in [BankFile, BankKey, BankValue(type=7),
\* value-bearing event]), WriteTo completes and the written document holds a
\* value element whose payload is the data of that following event.
C9_DeferredValueRendered ==
    \A n \in 1..Len(outs) :
        LET o   == outs[n]
            evs == WrittenEvents(o)
        IN  \A i \in 1..(Len(evs) - 1) :
                (/\ evs[i].type = EvtTypeBankValue
                 /\ evs[i].vtype = 7
                 /\ ValueBearing(evs[i + 1]))
                => /\ ~o.doc.fault
                   /\ \E v \in RenderedValues(o.doc) :
                          v.attrs[1].value = <<evs[i + 1].data>>

\* C10 as stated: two runs of WriteTo on the same bank of the same session
\* write identical documents, whatever the clock reads.
C10_ByteIdentical ==
    (Len(outs) = 2) => outs[1].doc = outs[2].doc

\* The document without the reading of time.Now() in its second comment.
StripTime(doc) ==
    IF Len(doc.comments) >= 2
    THEN [doc EXCEPT !.comments[2] = <<"time">>]
    ELSE doc

\* C10 as amended: two runs of WriteTo on the same bank of the same session
\* write documents that differ at most in the timestamp comment, and that are
\* identical when the clock reads the same in both runs.
C10_IdenticalButTimestamp ==
    (Len(outs) = 2) =>
        /\ StripTime(outs[1].doc) = StripTime(outs[2].doc)
        /\ (outs[1].now = outs[2].now) => (outs[1].doc = outs[2].doc)

C10_Witness ==
    /\ Len(outs) = 2
    /\ outs[1].now # outs[2].now
    /\ ~outs[1].doc.fault
    /\ outs[1].doc # outs[2].doc
    /\ RenderedValues(outs[1].doc) # {}

\* Positions of the value elements of a written document.
ValuePlaces(doc) ==
    {y \in (1..Len(doc.root)) \X (1..MaxDocEvents + 1) \X (1..MaxDocEvents + 1) :
        /\ y[2] <= Len(doc.root[y[1]].kids)
        /\ y[3] <= Len(doc.root[y[1]].kids[y[2]].kids)}

ElemAt(doc, y) == doc.root[y[1]].kids[y[2]].kids[y[3]]

\* Where the payload of event e is found in a written document.
PlacesOf(doc, e) ==
    {y \in ValuePlaces(doc) :
        \E a \in 1..Len(ElemAt(doc, y).attrs) :
            ElemAt(doc, y).attrs[a].value = <<e.data>>}

\* Event i has a current key: a Key event at or before i that came after a
\* Section event.
KeyOpen(evs, i) ==
    \E k \in 1..i : /\ evs[k].type = EvtTypeBankKey
                    /\ \E s \in 1..(k - 1) : evs[s].type = EvtTypeBankSection

LastKey(evs, i) == Latest({k \in 1..i : evs[k].type = EvtTypeBankKey})

KeyPlaces(doc) ==
    {y \in (1..Len(doc.root)) \X (1..MaxDocEvents + 1) :
        y[2] <= Len(doc.root[y[1]].kids)}

\* Where the element of the Key event e is found in a written document.
KeyPlacesOf(doc, e) ==
    {y \in KeyPlaces(doc) :
        /\ doc.root[y[1]].kids[y[2]].tag = "Key"
        /\ doc.root[y[1]].kids[y[2]].attrs[1].value = <<e.name>>}

SectionsBefore(evs, i) == {s \in 1..(i - 1) : evs[s].type = EvtTypeBankSection}
KeysUpTo(evs, i)       == {k \in 1..i : evs[k].type = EvtTypeBankKey}

\* C18: in a written document every child of the root is a Section or a
\* Signature element and a Signature element has no children; the element of
\* a Key event is a child of the element of the latest Section event before
\* it, and nowhere else; the element of a value is nowhere but under the
\* element of the latest Key event, and only if that Key event came after
\* the latest Section event.
C18_TreeNesting ==
    \A n \in 1..Len(outs) :
        LET o   == outs[n]
            evs == WrittenEvents(o)
            doc == o.doc
        IN  ~doc.fault =>
              /\ \A x \in 1..Len(doc.root) :
                    /\ doc.root[x].tag \in {"Section", "Signature"}
                    /\ doc.root[x].tag = "Signature" => doc.root[x].kids = <<>>
              /\ \A i \in 1..Len(evs) :
                    (evs[i].type = EvtTypeBankKey /\ SectionsBefore(evs, i) # {}) =>
                        LET s == evs[Latest(SectionsBefore(evs, i))]
                            P == KeyPlacesOf(doc, evs[i])
                        IN  /\ Cardinality(P) = 1
                            /\ \A y \in P :
                                  /\ doc.root[y[1]].tag = "Section"
                                  /\ doc.root[y[1]].attrs[1].value = <<s.name>>
              /\ \A i \in 1..Len(evs) :
                    ValueBearing(evs[i]) =>
                        \A y \in PlacesOf(doc, evs[i]) :
                            /\ KeysUpTo(evs, i) # {}
                            /\ LET k == Latest(KeysUpTo(evs, i))
                               IN  /\ <<y[1], y[2]>> \in KeyPlacesOf(doc, evs[k])
                                   /\ \A s \in SectionsBefore(evs, i) : s < k

\* C19: WriteTo refuses a stored Value (or Key with an inline type) whose
\* type code is outside 0..7 without indexing the table of kind names out of
\* range: no call of WriteTo ends in an index-out-of-range fault.
C19_UnknownCodeRejected ==
    \A n \in 1..Len(outs) :
        LET evs == WrittenEvents(outs[n])
        IN  (\E i \in 1..Len(evs) :
                /\ evs[i].type = EvtTypeBankValue \/ (evs[i].type = EvtTypeBankKey /\ evs[i].hasType)
                /\ evs[i].vtype \notin 0..7)
            => outs[n].doc.cause # IndexOutOfRange

\* C21: no call of WriteTo on a document of the pass ends in a runtime
\* fault, whatever the order and the type codes of its events: a Key before
\* any Section and a Value before any Key included.  Stated for the runs in
\* which etree creates an element on a nil receiver without a fault, the
\* outcome in favour of the claim.
C21_WriteToNeverFaults ==
    \A n \in 1..Len(outs) : ~outs[n].nilPanics => ~outs[n].doc.fault

====
